---- MODULE Spec2Model ----
(***************************************************************************)
(* Invoice lifecycle of the Kajiado POS application: the invoices,         *)
(* invoiceItems and invoicePayments tables of the local database           *)
(* (src/src/lib/db.ts) and the handlers of the invoice pages that write    *)
(* them (InvoiceCreate, InvoiceView, Invoices, RecordPaymentDialog).       *)
(*                                                                         *)
(* Money is held in hundredths of a shilling, so that the 16% VAT of a     *)
(* whole-shilling subtotal is an integer; Date values are integer ticks.   *)
(* Spec is one session: handlers run one at a time, and a handler that     *)
(* ends by (re)loading the invoice view leaves pc = "load", after which    *)
(* loadInvoice is the only step enabled.                                   *)
(***************************************************************************)
EXTENDS Integers, Sequences, FiniteSets, TLC

VARIABLES now, invoices, invoiceItems, invoicePayments,
          page, routeId, invoice, pc, lastOp,
          clients, overlapped,
          products, cart, sales, saleItems,
          categories, csvImport, importRun,
          users, backup

\* The invoice tables and the state of the invoice pages.
invoiceVars == <<invoices, invoiceItems, invoicePayments, page, routeId,
                 invoice, pc>>

\* The state of the two-client view of invoice creation (SpecNumbering).
clientVars == <<clients, overlapped>>

\* The products table, and the cart and the sales tables of the POS page.
posVars == <<products, cart, sales, saleItems>>

\* The categories table, the state of the product import dialog and the
\* locals of a handleImport in flight.
importVars == <<categories, csvImport, importRun>>

\* The users table, and the backup document chosen in the file input of
\* the Dashboard.
restoreVars == <<users, backup>>

vars == <<now, lastOp, invoiceVars, clientVars, posVars, importVars,
          restoreVars>>

\* ------------------------------------------------------------------ bounds
MaxTime == 1
TicksPerDay == 2
TzOffset == 1
MaxInvoices == 1
MaxPayments == 1
MaxStock == 1
MaxQuantity == 2
MaxSales == 1
MaxRows == 2
MaxBackup == 2
MaxPrice == 3

\* ------------------------------------------------------- program constants
VatRatePercent == 16

Statuses == {"draft", "sent", "paid", "overdue", "cancelled"}
CustomerNames == {" ", "Ann"}
DueDates == {0, MaxTime}

NoInvoice == [id |-> 0]
\* lastOp records the last handler run: ids are the invoices it worked on,
\* amount the payment submitted, ok whether it passed its validation, pre the
\* status loadInvoice and saveInvoice found stored ("" for a new invoice).
Op(op, ids, amount, ok, pre) ==
  [op |-> op, ids |-> ids, amount |-> amount, ok |-> ok, pre |-> pre]

NoOp == Op("none", {}, 0, TRUE, "")

\* Two clients (tabs, users) of the same database; stage is the client's
\* position in saveInvoice.
Clients == {1, 2}

IdleClient == [stage |-> "idle"]

\* The import dialog closed and empty, and no import in flight.
NoResult == <<>>

ClosedDialog ==
  [open |-> FALSE, categories |-> <<>>, csvData |-> <<>>, errors |-> <<>>,
   importing |-> FALSE, progress |-> 0, importResult |-> NoResult]

NoRun == [active |-> FALSE]
NoBackup == <<>>

\* --------------------------------------------------------------- helpers
RECURSIVE SumSeq(_)
SumSeq(s) == IF s = <<>> THEN 0 ELSE Head(s) + SumSeq(Tail(s))

Trim(s) == IF s = " " THEN "" ELSE s

InvoiceIds == 1..Len(invoices)

\* --------------------------------------------------- InvoiceCreate totals
calculateItemTotal(item) ==
  LET subtotal == item.quantity * item.unitPrice * 100
      vatAmount == (subtotal * VatRatePercent) \div 100
  IN  [subtotal |-> subtotal, vatAmount |-> vatAmount,
       total |-> subtotal + vatAmount]

calculateTotals(lineItems) ==
  LET subtotal == SumSeq([k \in 1..Len(lineItems) |->
                            lineItems[k].quantity * lineItems[k].unitPrice * 100])
      vatAmount == (subtotal * VatRatePercent) \div 100
  IN  [subtotal |-> subtotal, vatAmount |-> vatAmount,
       total |-> subtotal + vatAmount]

\* ------------------------------------------- the totals in binary64
\* The amounts of the code are JavaScript numbers. Where the rounding of the
\* arithmetic is at issue an amount is held exactly as the binary64 value it
\* is: four limbs of 15 bits, least significant first, counting units of
\* 2^-55 (the unit in the last place of 0.16), for amounts below 32. Whole
\* amounts (quantity * unitPrice) stay integers.
F64Base == 32768

\* 0.16 as a binary64: 16#147AE147AE147B * 2^-55.
F64Vat == <<5243, 3932, 27525, 163>>

F64Zero == <<0, 0, 0, 0>>

F64Carry(a) ==
  LET s2 == a[2] + (a[1] \div F64Base)
      s3 == a[3] + (s2 \div F64Base)
      s4 == a[4] + (s3 \div F64Base)
  IN  <<a[1] % F64Base, s2 % F64Base, s3 % F64Base, s4>>

\* The number of significant bits of a limb, and of an amount.
BitLength15(n) == CHOOSE k \in 0..15 : n < 2^k /\ (k = 0 \/ n >= 2^(k - 1))

F64BitLength(x) ==
  IF x[4] > 0 THEN 45 + BitLength15(x[4])
  ELSE IF x[3] > 0 THEN 30 + BitLength15(x[3])
  ELSE IF x[2] > 0 THEN 15 + BitLength15(x[2])
  ELSE BitLength15(x[1])

\* Rounding of an exact result to the 53 significant bits of a binary64,
\* to nearest, ties to even.
F64Round(x) ==
  LET shift == F64BitLength(x) - 53
      unit == 2^shift
      rem == x[1] % unit
      down == [x EXCEPT ![1] = @ - rem]
      odd == (x[1] \div unit) % 2 = 1
  IN  IF shift <= 0 THEN x
      ELSE IF 2 * rem > unit \/ (2 * rem = unit /\ odd)
           THEN F64Carry([down EXCEPT ![1] = @ + unit])
           ELSE down

F64FromInt(n) == <<0, 0, 0, n * 1024>>

F64Add(x, y) == F64Round(F64Carry([k \in 1..4 |-> x[k] + y[k]]))

\* n * 0.16 for a whole amount n.
F64TimesVat(n) == F64Round(F64Carry([k \in 1..4 |-> n * F64Vat[k]]))

RECURSIVE F64Sum(_)
F64Sum(s) ==
  IF s = <<>> THEN F64Zero
  ELSE F64Add(F64Sum(SubSeq(s, 1, Len(s) - 1)), s[Len(s)])

calculateItemTotal_f64(item) ==
  LET subtotal == item.quantity * item.unitPrice
      vatAmount == F64TimesVat(subtotal)
  IN  [subtotal |-> subtotal, vatAmount |-> vatAmount,
       total |-> F64Add(F64FromInt(subtotal), vatAmount)]

calculateTotals_f64(lineItems) ==
  LET subtotal == SumSeq([k \in 1..Len(lineItems) |->
                            lineItems[k].quantity * lineItems[k].unitPrice])
      vatAmount == F64TimesVat(subtotal)
  IN  [subtotal |-> subtotal, vatAmount |-> vatAmount,
       total |-> F64Add(F64FromInt(subtotal), vatAmount)]

\* ------------------------------------------------ LocalDatabase operations
UtcDay(t) == t \div TicksPerDay
LocalDayStart(t) == t - ((t + TzOffset) % TicksPerDay)

\* Variant of generateInvoiceNumber that also counts the numbers handed out
\* and not yet stored.
generateInvoiceNumber_reserving(invs, today) ==
  LET dateStr == UtcDay(today)
      todayStart == LocalDayStart(today)
      count == Cardinality({i \in 1..Len(invs) : invs[i].createdAt >= todayStart})
      handedOut == Cardinality({c \in Clients : clients[c].stage = "numbered"})
  IN  <<dateStr, count + handedOut + 1>>

generateInvoiceNumber(invs, today) ==
  LET dateStr == UtcDay(today)
      todayStart == LocalDayStart(today)
      count == Cardinality({i \in 1..Len(invs) : invs[i].createdAt >= todayStart})
  IN  <<dateStr, count + 1>>

\* Variants of updateInvoiceStatus with one plausible slip each.
updateInvoiceStatus_overdueFirst(inv, today) ==
  LET newStatus == IF today > inv.dueDate THEN "overdue"
                   ELSE IF inv.balanceDue = 0 THEN "paid"
                   ELSE inv.status
  IN  IF newStatus # inv.status
      THEN [inv EXCEPT !.status = newStatus, !.updatedAt = today]
      ELSE inv

updateInvoiceStatus_flippedDate(inv, today) ==
  LET newStatus == IF inv.balanceDue = 0 THEN "paid"
                   ELSE IF today < inv.dueDate /\ inv.status # "paid" THEN "overdue"
                   ELSE inv.status
  IN  IF newStatus # inv.status
      THEN [inv EXCEPT !.status = newStatus, !.updatedAt = today]
      ELSE inv

updateInvoiceStatus_alwaysWrites(inv, today) ==
  LET newStatus == IF inv.balanceDue = 0 THEN "paid"
                   ELSE IF today > inv.dueDate /\ inv.status # "paid" THEN "overdue"
                   ELSE inv.status
  IN  [inv EXCEPT !.status = newStatus, !.updatedAt = today]

updateInvoiceStatus(inv, today) ==
  LET newStatus == IF inv.balanceDue = 0 THEN "paid"
                   ELSE IF today > inv.dueDate /\ inv.status # "paid" THEN "overdue"
                   ELSE inv.status
  IN  IF newStatus # inv.status
      THEN [inv EXCEPT !.status = newStatus, !.updatedAt = today]
      ELSE inv

\* ------------------------------------------------------------------ Init
\* The invoice pages before any invoice is created.
InitInvoices ==
  /\ now = 0
  /\ invoices = <<>>
  /\ invoiceItems = {}
  /\ invoicePayments = <<>>
  /\ page = "list"
  /\ routeId = 0
  /\ invoice = NoInvoice
  /\ pc = "idle"
  /\ lastOp = NoOp
  /\ clients = [c \in Clients |-> IdleClient]
  /\ overlapped = FALSE

\* The shop before any product is created.
InitShop ==
  /\ products = <<>>
  /\ cart = <<>>
  /\ sales = <<>>
  /\ saleItems = <<>>
  /\ categories = <<>>
  /\ csvImport = ClosedDialog
  /\ importRun = NoRun

\* No user is stored and no backup document is chosen.
InitBackup ==
  /\ users = <<>>
  /\ backup = NoBackup

Init == InitInvoices /\ InitShop /\ InitBackup

\* The clock advances between user actions.
Tick ==
  /\ pc = "idle"
  /\ now < MaxTime
  /\ now' = now + 1
  /\ lastOp' = NoOp
  /\ UNCHANGED <<invoices, invoiceItems, invoicePayments, page, routeId,
                 invoice, pc>>

\* Invoices.loadInvoices: the list page refreshes the status of every invoice
\* in its result set (status filter and search term), then re-reads them.
loadInvoices(statusFilter, searchTerm) ==
  LET results == {i \in InvoiceIds :
                    /\ (statusFilter = "all" \/ invoices[i].status = statusFilter)
                    /\ (searchTerm = "" \/ invoices[i].customerName = searchTerm)}
  IN  /\ pc = "idle"
      /\ invoices' = [i \in InvoiceIds |->
                        IF i \in results THEN updateInvoiceStatus(invoices[i], now)
                        ELSE invoices[i]]
      /\ page' = "list"
      /\ routeId' = 0
      /\ invoice' = NoInvoice
      /\ lastOp' = Op("loadInvoices", results, 0, TRUE, "")
      /\ UNCHANGED <<now, invoiceItems, invoicePayments, pc>>

\* InvoiceView.loadInvoice: runs when the view is opened from the list and
\* after every handler that lands on the view (pc = "load").
loadInvoice(invoiceId) ==
  /\ \/ pc = "idle" /\ page = "list"
     \/ pc = "load" /\ invoiceId = routeId
  /\ invoiceId \in InvoiceIds
  /\ invoices' = [invoices EXCEPT ![invoiceId] = updateInvoiceStatus(@, now)]
  /\ invoice' = invoices'[invoiceId]
  /\ page' = "view"
  /\ routeId' = invoiceId
  /\ pc' = "idle"
  /\ lastOp' = Op("loadInvoice", {invoiceId}, 0, TRUE, invoices[invoiceId].status)
  /\ UNCHANGED <<now, invoiceItems, invoicePayments>>

Quantities == {1}

\* Line items of the form: the valid ones, and one item for each defect the
\* validation of saveInvoice looks for.
LineItems ==
  [description : {"item"}, quantity : Quantities, unitPrice : {1}]
    \cup {[description |-> "", quantity |-> 1, unitPrice |-> 1],
          [description |-> "item", quantity |-> 0 - 1, unitPrice |-> 1],
          [description |-> "item", quantity |-> 1, unitPrice |-> 0]}

FormLineItems == {<<item>> : item \in LineItems}

\* The invoiceItems rows saveInvoice adds for one invoice; line is the order
\* of insertion (the order of the auto-increment keys) within the invoice.
ItemRows(invoiceId, lineItems) ==
  {LET itemTotals == calculateItemTotal(lineItems[k])
   IN  [invoiceId |-> invoiceId,
        line |-> k,
        description |-> lineItems[k].description,
        quantity |-> lineItems[k].quantity,
        unitPrice |-> lineItems[k].unitPrice,
        subtotal |-> itemTotals.subtotal,
        vatAmount |-> itemTotals.vatAmount,
        total |-> itemTotals.total] : k \in 1..Len(lineItems)}

\* The validation at the head of saveInvoice.
invalidForm(customerName, lineItems) ==
  \/ Trim(customerName) = ""
  \/ \E k \in 1..Len(lineItems) :
       \/ lineItems[k].description = ""
       \/ lineItems[k].quantity <= 0
       \/ lineItems[k].unitPrice <= 0

\* Variant of invoiceData that draws a fresh number on every save.
invoiceData_renumbers(id, status, customerName, dueDate, lineItems) ==
  LET totals == calculateTotals(lineItems)
  IN  [id |-> IF id # 0 THEN id ELSE Len(invoices) + 1,
       invoiceNumber |-> generateInvoiceNumber(invoices, now),
       customerName |-> Trim(customerName),
       dueDate |-> dueDate,
       status |-> status,
       subtotal |-> totals.subtotal,
       vatAmount |-> totals.vatAmount,
       totalAmount |-> totals.total,
       amountPaid |-> 0,
       balanceDue |-> totals.total,
       createdAt |-> IF id # 0 THEN invoices[id].createdAt ELSE now,
       updatedAt |-> now]

\* The record saveInvoice writes; id = 0 for a new invoice.
invoiceData(id, status, customerName, dueDate, lineItems) ==
  LET totals == calculateTotals(lineItems)
  IN  [id |-> IF id # 0 THEN id ELSE Len(invoices) + 1,
       invoiceNumber |-> IF id # 0 THEN invoices[id].invoiceNumber
                         ELSE generateInvoiceNumber(invoices, now),
       customerName |-> Trim(customerName),
       dueDate |-> dueDate,
       status |-> status,
       subtotal |-> totals.subtotal,
       vatAmount |-> totals.vatAmount,
       totalAmount |-> totals.total,
       amountPaid |-> 0,
       balanceDue |-> totals.total,
       createdAt |-> IF id # 0 THEN invoices[id].createdAt ELSE now,
       updatedAt |-> now]

\* Variant of canEdit that copies the condition of the Record Payment button.
canEdit_unpaid(inv) ==
  inv.status # "paid" /\ inv.status # "cancelled"

\* The condition under which the invoice view renders its Edit button.
canEdit(inv) ==
  inv.status = "draft"

\* InvoiceCreate.saveInvoice. The form is reached by the "New Invoice" button
\* of the list page (id = 0) or by the "Edit" button of the invoice view,
\* which is rendered for a draft only (id = the viewed invoice); it ends by
\* navigating to the view of the saved invoice.
saveInvoice(id, status, customerName, dueDate, lineItems) ==
  LET data == invoiceData(id, status, customerName, dueDate, lineItems)
      pre == IF id # 0 THEN invoices[id].status ELSE ""
  IN  /\ pc = "idle"
      /\ IF id = 0
         THEN page = "list"
         ELSE /\ page = "view"
              /\ invoice # NoInvoice
              /\ invoice.id = id
              /\ canEdit(invoice)
      /\ IF invalidForm(customerName, lineItems)
         THEN /\ lastOp' = Op("saveInvoice", {id} \ {0}, 0, FALSE, pre)
              /\ UNCHANGED <<now, invoices, invoiceItems, invoicePayments,
                             page, routeId, invoice, pc>>
         ELSE /\ invoices' = IF id # 0 THEN [invoices EXCEPT ![id] = data]
                             ELSE Append(invoices, data)
              /\ invoiceItems' =
                   {it \in invoiceItems : it.invoiceId # data.id}
                     \cup ItemRows(data.id, lineItems)
              /\ page' = "view"
              /\ routeId' = data.id
              /\ invoice' = NoInvoice
              /\ pc' = "load"
              /\ lastOp' = Op("saveInvoice", {data.id}, 0, TRUE, pre)
              /\ UNCHANGED <<now, invoicePayments>>

\* Amounts the payment dialog can be submitted with, relative to the
\* balance the dialog shows.
PaymentAmounts(balanceDue) ==
  {0 - 1, 0, balanceDue \div 2, balanceDue, balanceDue + 1}

\* Variants of invalidPayment with one of its two checks missing.
invalidPayment_noBalanceCheck(inv, amount) ==
  amount <= 0

invalidPayment_noPositiveCheck(inv, amount) ==
  amount > inv.balanceDue

\* The two checks at the head of handleRecordPayment.
invalidPayment(inv, amount) ==
  amount <= 0 \/ amount > inv.balanceDue

\* Variants of paymentUpdate: the balance taken from the old amountPaid, and
\* the status never set to paid.
paymentUpdate_staleBalance(inv, amount) ==
  LET newAmountPaid == inv.amountPaid + amount
      newBalanceDue == inv.totalAmount - inv.amountPaid
      newStatus == IF newBalanceDue = 0 THEN "paid" ELSE inv.status
  IN  [amountPaid |-> newAmountPaid, balanceDue |-> newBalanceDue,
       status |-> newStatus]

paymentUpdate_keepsStatus(inv, amount) ==
  LET newAmountPaid == inv.amountPaid + amount
      newBalanceDue == inv.totalAmount - newAmountPaid
  IN  [amountPaid |-> newAmountPaid, balanceDue |-> newBalanceDue,
       status |-> inv.status]

\* The fields handleRecordPayment writes to the invoice, computed from the
\* invoice the dialog was given.
paymentUpdate(inv, amount) ==
  LET newAmountPaid == inv.amountPaid + amount
      newBalanceDue == inv.totalAmount - newAmountPaid
      newStatus == IF newBalanceDue = 0 THEN "paid" ELSE inv.status
  IN  [amountPaid |-> newAmountPaid, balanceDue |-> newBalanceDue,
       status |-> newStatus]

\* RecordPaymentDialog.handleRecordPayment; the dialog is opened from the
\* view by the "Record Payment" button and works on the view's invoice. It
\* ends in handlePaymentRecorded, which reloads the view.
handleRecordPayment(amount) ==
  /\ pc = "idle"
  /\ page = "view"
  /\ invoice # NoInvoice
  /\ invoice.status # "paid" /\ invoice.status # "cancelled"
  /\ IF invalidPayment(invoice, amount)
     THEN /\ lastOp' = Op("recordPayment", {invoice.id}, amount, FALSE, "")
          /\ UNCHANGED <<now, invoices, invoiceItems, invoicePayments,
                         page, routeId, invoice, pc>>
     ELSE LET upd == paymentUpdate(invoice, amount)
          IN  /\ invoicePayments' =
                   Append(invoicePayments,
                          [invoiceId |-> invoice.id, amount |-> amount])
              /\ invoices' = [invoices EXCEPT ![invoice.id] =
                                [@ EXCEPT !.amountPaid = upd.amountPaid,
                                          !.balanceDue = upd.balanceDue,
                                          !.status = upd.status,
                                          !.updatedAt = now]]
              /\ routeId' = invoice.id
              /\ pc' = "load"
              /\ lastOp' = Op("recordPayment", {invoice.id}, amount, TRUE, "")
              /\ UNCHANGED <<now, invoiceItems, page, invoice>>

\* InvoiceView.handleCancelInvoice behind the "Cancel Invoice" button, which
\* is rendered for an admin; confirmed is the answer to the confirm() prompt.
\* It ends by reloading the view.
handleCancelInvoice(confirmed) ==
  /\ pc = "idle"
  /\ page = "view"
  /\ invoice # NoInvoice
  /\ invoice.status # "paid" /\ invoice.status # "cancelled"
  /\ IF ~confirmed
     THEN /\ lastOp' = Op("cancelInvoice", {invoice.id}, 0, FALSE, "")
          /\ UNCHANGED <<now, invoices, invoiceItems, invoicePayments,
                         page, routeId, invoice, pc>>
     ELSE /\ invoices' = [invoices EXCEPT ![invoice.id] =
                            [@ EXCEPT !.status = "cancelled", !.updatedAt = now]]
          /\ routeId' = invoice.id
          /\ pc' = "load"
          /\ lastOp' = Op("cancelInvoice", {invoice.id}, 0, TRUE, "")
          /\ UNCHANGED <<now, invoiceItems, invoicePayments, page, invoice>>

\* The handlers of the invoice pages leave the shop alone.
ShopIdle == UNCHANGED <<posVars, importVars, restoreVars>>

\* Spec is the single session: the clients of SpecNumbering stay idle.
SingleSession == UNCHANGED clientVars /\ ShopIdle

Next ==
  \/ Tick /\ SingleSession
  \/ \E statusFilter \in Statuses \cup {"all"}, searchTerm \in {"", "Ann"} :
       loadInvoices(statusFilter, searchTerm) /\ SingleSession
  \/ \E invoiceId \in InvoiceIds : loadInvoice(invoiceId) /\ SingleSession
  \/ \E id \in {i \in 0..Len(invoices) : i # 0 \/ Len(invoices) < MaxInvoices},
        status \in {"draft", "sent"}, customerName \in CustomerNames,
        dueDate \in DueDates, lineItems \in FormLineItems :
       saveInvoice(id, status, customerName, dueDate, lineItems) /\ SingleSession
  \/ /\ Len(invoicePayments) < MaxPayments
     /\ \E amount \in PaymentAmounts(IF invoice = NoInvoice THEN 0 ELSE invoice.balanceDue) :
          handleRecordPayment(amount) /\ SingleSession
  \/ \E confirmed \in BOOLEAN : handleCancelInvoice(confirmed) /\ SingleSession

\* ------------------------------------------- invoice creation by two clients
\* Each client runs saveInvoice for a new invoice. saveInvoice awaits
\* generateInvoiceNumber before it builds and adds the record, so the other
\* client can run between the count and the add.
\* saveInvoice up to the return of generateInvoiceNumber: the validation and
\* the count of the invoices created since the local midnight. at and seen
\* record when the count was taken and how many invoices were stored then.
saveInvoice_number(c, status, customerName, dueDate, lineItems) ==
  /\ clients[c].stage = "idle"
  /\ ~invalidForm(customerName, lineItems)
  /\ clients' = [clients EXCEPT ![c] =
                   [stage |-> "numbered",
                    invoiceNumber |-> generateInvoiceNumber(invoices, now),
                    at |-> now, seen |-> Len(invoices),
                    status |-> status, customerName |-> customerName,
                    dueDate |-> dueDate, lineItems |-> lineItems]]
  /\ overlapped' = (overlapped \/ \E d \in Clients \ {c} : clients[d].stage # "idle")
  /\ UNCHANGED <<now, invoices, invoiceItems, invoicePayments,
                 page, routeId, invoice, pc, lastOp>>

\* The rest of saveInvoice: the record is built with the number obtained,
\* added with its items, and the client navigates to the invoice view.
saveInvoice_add(c) ==
  LET f == clients[c]
      data == [invoiceData(0, f.status, f.customerName, f.dueDate, f.lineItems)
                 EXCEPT !.invoiceNumber = f.invoiceNumber]
  IN  /\ f.stage = "numbered"
      /\ invoices' = Append(invoices, data)
      /\ invoiceItems' = invoiceItems \cup ItemRows(data.id, f.lineItems)
      /\ clients' = [clients EXCEPT ![c] = [stage |-> "load", id |-> data.id]]
      /\ UNCHANGED <<now, invoicePayments, page, routeId, invoice, pc, lastOp,
                     overlapped>>

\* InvoiceView.loadInvoice of the client that has just saved.
loadInvoice_saved(c) ==
  /\ clients[c].stage = "load"
  /\ invoices' = [invoices EXCEPT ![clients[c].id] = updateInvoiceStatus(@, now)]
  /\ clients' = [clients EXCEPT ![c] = IdleClient]
  /\ UNCHANGED <<now, invoiceItems, invoicePayments, page, routeId, invoice,
                 pc, lastOp, overlapped>>

\* Invoices stored or about to be stored.
Started ==
  Len(invoices) + Cardinality({c \in Clients : clients[c].stage = "numbered"})

NextNumbering ==
  \/ Tick /\ UNCHANGED clientVars /\ ShopIdle
  \/ \E c \in Clients, status \in {"draft", "sent"},
        customerName \in CustomerNames, dueDate \in DueDates,
        lineItems \in FormLineItems :
       /\ Started < MaxInvoices + 1
       /\ saveInvoice_number(c, status, customerName, dueDate, lineItems)
       /\ ShopIdle
  \/ \E c \in Clients : saveInvoice_add(c) /\ ShopIdle
  \/ \E c \in Clients : loadInvoice_saved(c) /\ ShopIdle

\* ------------------------------------------- saving with binary64 amounts
\* saveInvoice and the reload of the view with the amounts computed as the
\* code computes them, in binary64 (whole prices, forms of one or two lines).
LineItems_f64 == [description : {"item"}, quantity : Quantities, unitPrice : {1, 2}]

FormLineItems_f64 ==
  {<<item>> : item \in LineItems_f64}
    \cup {<<a, b>> : a \in LineItems_f64, b \in LineItems_f64}

ItemRows_f64(invoiceId, lineItems) ==
  {LET itemTotals == calculateItemTotal_f64(lineItems[k])
   IN  [invoiceId |-> invoiceId,
        line |-> k,
        description |-> lineItems[k].description,
        quantity |-> lineItems[k].quantity,
        unitPrice |-> lineItems[k].unitPrice,
        subtotal |-> itemTotals.subtotal,
        vatAmount |-> itemTotals.vatAmount,
        total |-> itemTotals.total] : k \in 1..Len(lineItems)}

invoiceData_f64(id, status, customerName, dueDate, lineItems) ==
  LET totals == calculateTotals_f64(lineItems)
  IN  [invoiceData(id, status, customerName, dueDate, lineItems)
         EXCEPT !.subtotal = totals.subtotal,
                !.vatAmount = totals.vatAmount,
                !.totalAmount = totals.total,
                !.amountPaid = F64Zero,
                !.balanceDue = totals.total]

saveInvoice_f64(id, status, customerName, dueDate, lineItems) ==
  LET data == invoiceData_f64(id, status, customerName, dueDate, lineItems)
      pre == IF id # 0 THEN invoices[id].status ELSE ""
  IN  /\ pc = "idle"
      /\ IF id = 0
         THEN page = "list"
         ELSE /\ page = "view"
              /\ invoice # NoInvoice
              /\ invoice.id = id
              /\ canEdit(invoice)
      /\ IF invalidForm(customerName, lineItems)
         THEN /\ lastOp' = Op("saveInvoice", {id} \ {0}, 0, FALSE, pre)
              /\ UNCHANGED <<now, invoices, invoiceItems, invoicePayments,
                             page, routeId, invoice, pc>>
         ELSE /\ invoices' = IF id # 0 THEN [invoices EXCEPT ![id] = data]
                             ELSE Append(invoices, data)
              /\ invoiceItems' =
                   {it \in invoiceItems : it.invoiceId # data.id}
                     \cup ItemRows_f64(data.id, lineItems)
              /\ page' = "view"
              /\ routeId' = data.id
              /\ invoice' = NoInvoice
              /\ pc' = "load"
              /\ lastOp' = Op("saveInvoice", {data.id}, 0, TRUE, pre)
              /\ UNCHANGED <<now, invoicePayments>>

\* updateInvoiceStatus on a record whose amounts are binary64 values.
updateInvoiceStatus_f64(inv, today) ==
  LET r == updateInvoiceStatus(
             [inv EXCEPT !.balanceDue = IF @ = F64Zero THEN 0 ELSE 1], today)
  IN  [inv EXCEPT !.status = r.status, !.updatedAt = r.updatedAt]

loadInvoice_f64(invoiceId) ==
  /\ \/ pc = "idle" /\ page = "list"
     \/ pc = "load" /\ invoiceId = routeId
  /\ invoiceId \in InvoiceIds
  /\ invoices' = [invoices EXCEPT ![invoiceId] = updateInvoiceStatus_f64(@, now)]
  /\ invoice' = invoices'[invoiceId]
  /\ page' = "view"
  /\ routeId' = invoiceId
  /\ pc' = "idle"
  /\ lastOp' = Op("loadInvoice", {invoiceId}, 0, TRUE, invoices[invoiceId].status)
  /\ UNCHANGED <<now, invoiceItems, invoicePayments>>

NextTotals ==
  \/ Tick /\ SingleSession
  \/ \E invoiceId \in InvoiceIds : loadInvoice_f64(invoiceId) /\ SingleSession
  \/ \E id \in {i \in 0..Len(invoices) : i # 0 \/ Len(invoices) < MaxInvoices},
        status \in {"draft", "sent"}, customerName \in CustomerNames,
        dueDate \in DueDates, lineItems \in FormLineItems_f64 :
       saveInvoice_f64(id, status, customerName, dueDate, lineItems) /\ SingleSession

\* ------------------------------------------------------------- POS page
\* The products the POS page starts with: created through the product form,
\* with a stock that is not negative.
InitialProducts ==
  {<<[name |-> "Soap", category |-> "Personal Care", stock |-> a, sellingPrice |-> 1],
     [name |-> "Lotion", category |-> "Personal Care", stock |-> b, sellingPrice |-> 2]>> :
     a \in 0..MaxStock, b \in 0..MaxStock}

InitPOS ==
  /\ InitInvoices
  /\ InitBackup
  /\ products \in InitialProducts
  /\ cart = <<>>
  /\ sales = <<>>
  /\ saleItems = <<>>
  /\ categories = <<>>
  /\ csvImport = ClosedDialog
  /\ importRun = NoRun

ProductIds == 1..Len(products)

\* The positions of the cart that hold the product.
InCart(productId) == {k \in 1..Len(cart) : cart[k].productId = productId}

\* POS.addToCart: the product is one of the list the page shows, which
\* loadProducts reads when the page opens and after every sale.
addToCart(productId) ==
  LET product == products[productId]
      existing == InCart(productId)
  IN  /\ cart' =
           IF product.stock <= 0 THEN cart
           ELSE IF existing # {}
                THEN [k \in 1..Len(cart) |->
                        IF k \in existing /\ cart[k].quantity < product.stock
                        THEN [cart[k] EXCEPT !.quantity = @ + 1]
                        ELSE cart[k]]
                ELSE Append(cart, [productId |-> productId,
                                   name |-> product.name,
                                   price |-> product.sellingPrice,
                                   quantity |-> 1])
      /\ lastOp' = Op("addToCart", {productId}, 0, product.stock > 0, "")
      /\ UNCHANGED <<now, products, sales, saleItems>>

\* POS.removeFromCart.
removeFromCart(productId) ==
  /\ cart' = SelectSeq(cart, LAMBDA item : item.productId # productId)
  /\ lastOp' = Op("removeFromCart", {productId}, 0, TRUE, "")
  /\ UNCHANGED <<now, products, sales, saleItems>>

\* POS.updateQuantity, from the quantity field of a cart line.
updateQuantity(productId, newQuantity) ==
  /\ cart' =
       IF newQuantity < 1
       THEN SelectSeq(cart, LAMBDA item : item.productId # productId)
       ELSE [k \in 1..Len(cart) |->
               IF cart[k].productId = productId
               THEN [cart[k] EXCEPT !.quantity = newQuantity]
               ELSE cart[k]]
  /\ lastOp' = Op("updateQuantity", {productId}, newQuantity, TRUE, "")
  /\ UNCHANGED <<now, products, sales, saleItems>>

\* Variant of total that counts each line once, whatever its quantity.
total_ofPrices == SumSeq([k \in 1..Len(cart) |-> cart[k].price])

\* The total the page shows for the cart.
total == SumSeq([k \in 1..Len(cart) |-> cart[k].price * cart[k].quantity])

\* The stock processPayment leaves after the lines 1..k of the cart: each
\* line reads the product and writes its stock less the line's quantity.
RECURSIVE StockAfter(_, _)
StockAfter(prods, k) ==
  IF k = 0 THEN prods
  ELSE LET before == StockAfter(prods, k - 1)
           item == cart[k]
       IN  IF item.productId \in 1..Len(before)
           THEN [before EXCEPT ![item.productId].stock = @ - item.quantity]
           ELSE before

\* POS.processPayment ("Complete Sale"); userId is the id of the signed-in
\* user, 0 when there is none.
processPayment(userId) ==
  IF cart = <<>> \/ userId = 0
  THEN /\ lastOp' = Op("processPayment", {}, 0, FALSE, "")
       /\ UNCHANGED <<now, products, cart, sales, saleItems>>
  ELSE LET saleId == Len(sales) + 1
       IN  /\ sales' = Append(sales, [id |-> saleId,
                                      receiptNumber |-> now,
                                      totalAmount |-> total,
                                      amountPaid |-> total,
                                      change |-> 0,
                                      cashierId |-> userId,
                                      createdAt |-> now])
           /\ saleItems' = saleItems \o
                [k \in 1..Len(cart) |->
                   [saleId |-> saleId,
                    productId |-> cart[k].productId,
                    quantity |-> cart[k].quantity,
                    price |-> cart[k].price,
                    subtotal |-> cart[k].price * cart[k].quantity]]
           /\ products' = StockAfter(products, Len(cart))
           /\ cart' = <<>>
           /\ lastOp' = Op("processPayment", {saleId}, total, TRUE, "")
           /\ UNCHANGED now

\* What the POS page leaves alone: the invoices, the categories and the
\* import dialog.
OutsidePOS == UNCHANGED <<invoiceVars, clientVars, importVars, restoreVars>>

NextPOS ==
  \/ \E productId \in ProductIds : addToCart(productId) /\ OutsidePOS
  \/ \E productId \in {cart[k].productId : k \in 1..Len(cart)} :
       removeFromCart(productId) /\ OutsidePOS
  \/ \E productId \in {cart[k].productId : k \in 1..Len(cart)},
        newQuantity \in {0 - 1} \cup 1..MaxQuantity :
       updateQuantity(productId, newQuantity) /\ OutsidePOS
  \/ /\ Len(sales) < MaxSales \/ cart = <<>>
     /\ \E userId \in {0, 1} : processPayment(userId) /\ OutsidePOS

\* ------------------------------------------- product import, local store
\* The Inventory page with its category dialog and its product import dialog
\* (CSVImport on the local database).
DefaultCategories ==
  <<"Groceries", "Beverages", "Snacks", "Personal Care", "Household Items",
    "Other">>

\* String.toLowerCase on the strings of the model.
ToLowerCase(s) ==
  CASE s = "Groceries" -> "groceries"
    [] s = "Beverages" -> "beverages"
    [] s = "Snacks" -> "snacks"
    [] s = "Personal Care" -> "personal care"
    [] s = "Household Items" -> "household items"
    [] s = "Other" -> "other"
    [] s = "Toys" -> "toys"
    [] s = "Lotions" -> "lotions"
    [] OTHER -> s

\* parseFloat and parseInt on the cells of the model: <<n>> for the number
\* n, <<>> for NaN. Both read the longest numeric prefix of the cell, so
\* "2x" reads as 2; the cells of the model hold no decimal point.
parseFloat(s) ==
  CASE s = "5" -> <<5>>
    [] s = "3" -> <<3>>
    [] s = "2" -> <<2>>
    [] s = "0" -> <<0>>
    [] s = "-1" -> <<0 - 1>>
    [] s = "2x" -> <<2>>
    [] OTHER -> <<>>

parseInt(s) == parseFloat(s)

\* Variant of NotNonNegative that accepts a negative number.
NotNonNegative_nanOnly(v) == v = <<>>

\* isNaN(v) || v < 0.
NotNonNegative(v) == v = <<>> \/ v[1] < 0

\* LocalDatabase.seedDefaultCategories, run when the application loads.
seedDefaultCategories ==
  /\ categories' = IF Len(categories) = 0 THEN DefaultCategories ELSE categories
  /\ lastOp' = [op |-> "seedDefaultCategories"]
  /\ UNCHANGED <<now, products, csvImport, importRun>>

\* Inventory.handleAddCategory. The category dialog and the import dialog are
\* modal, so the category handlers run while the import dialog is closed.
handleAddCategory(newCategoryName) ==
  LET name == Trim(newCategoryName)
      existing == {k \in 1..Len(categories) :
                     ToLowerCase(categories[k]) = ToLowerCase(name)}
      added == name # "" /\ existing = {}
  IN  /\ ~csvImport.open
      /\ categories' = IF added THEN Append(categories, name) ELSE categories
      /\ lastOp' = [op |-> "handleAddCategory", name |-> name, ok |-> added]
      /\ UNCHANGED <<now, products, csvImport, importRun>>

\* The number of stored products whose category equals the name ignoring
\* case, as validateRow matches a label with a category.
productsWithCategory_anyCase(categoryName) ==
  Cardinality({p \in 1..Len(products) :
                 ToLowerCase(products[p].category) = ToLowerCase(categoryName)})

\* The count handleDeleteCategory takes of the products in the category.
productsWithCategory(categoryName) ==
  Cardinality({p \in 1..Len(products) : products[p].category = categoryName})

\* Inventory.handleDeleteCategory on the k-th stored category (the list of
\* the dialog is reloaded after every add and delete); confirmed is the
\* answer to the confirm() prompt.
handleDeleteCategory(k, confirmed) ==
  LET categoryName == categories[k]
      deleted == productsWithCategory(categoryName) = 0 /\ confirmed
  IN  /\ ~csvImport.open
      /\ categories' =
           IF deleted
           THEN SubSeq(categories, 1, k - 1) \o SubSeq(categories, k + 1, Len(categories))
           ELSE categories
      /\ lastOp' = [op |-> "handleDeleteCategory", name |-> categoryName,
                    ok |-> deleted]
      /\ UNCHANGED <<now, products, csvImport, importRun>>

\* The import dialog is opened: CSVImport.loadCategories reads the
\* categories into the state of the dialog.
openImport ==
  /\ ~csvImport.open
  /\ csvImport' = [csvImport EXCEPT !.open = TRUE, !.categories = categories]
  /\ lastOp' = [op |-> "openImport"]
  /\ UNCHANGED <<now, products, categories, importRun>>

\* CSVImport.validateRow against the categories the dialog holds. created is
\* the category the call adds to the store (none: <<>>); rowErrors carry the
\* row number and the field.
validateRow(row, rowIndex, cats) ==
  LET validCategories == {ToLowerCase(cats[k]) : k \in 1..Len(cats)}
      Error(field) == <<[row |-> rowIndex, field |-> field]>>
      buyingPrice == parseFloat(row.buying_price)
      sellingPrice == parseFloat(row.selling_price)
      quantity == parseFloat(row.stock)
      threshold == IF row.reorder_level # "" THEN parseInt(row.reorder_level)
                   ELSE <<10>>
      rowErrors ==
        (IF Trim(row.name) = "" THEN Error("name") ELSE <<>>)
        \o (IF Trim(row.category) = "" THEN Error("category") ELSE <<>>)
        \o (IF NotNonNegative(buyingPrice) THEN Error("buying_price") ELSE <<>>)
        \o (IF NotNonNegative(sellingPrice) THEN Error("selling_price") ELSE <<>>)
        \o (IF NotNonNegative(quantity) THEN Error("stock") ELSE <<>>)
        \o (IF NotNonNegative(threshold) THEN Error("reorder_level") ELSE <<>>)
      created ==
        IF Trim(row.category) # "" /\ ToLowerCase(row.category) \notin validCategories
        THEN <<Trim(row.category)>>
        ELSE <<>>
  IN  IF rowErrors # <<>>
      THEN [valid |-> FALSE, errors |-> rowErrors, created |-> created]
      ELSE [valid |-> TRUE,
            product |-> [name |-> Trim(row.name),
                         category |-> Trim(row.category),
                         buyingPrice |-> buyingPrice[1],
                         sellingPrice |-> sellingPrice[1],
                         stock |-> quantity[1],
                         reorderLevel |-> threshold[1]],
            errors |-> <<>>,
            created |-> created]

\* Variant of RowNumber that counts the data rows from 1.
RowNumber_dataRows(index) == index + 1

\* The row number handleFileUpload gives the row at the zero-based position
\* index: row 1 is the header.
RowNumber(index) == index + 2

\* The loop of handleFileUpload over the first k rows of the file.
RECURSIVE ValidateRows(_, _, _)
ValidateRows(file, k, cats) ==
  IF k = 0
  THEN [created |-> <<>>, validProducts |-> <<>>, allErrors |-> <<>>]
  ELSE LET before == ValidateRows(file, k - 1, cats)
           validation == validateRow(file[k], RowNumber(k - 1), cats)
       IN  [created |-> before.created \o validation.created,
            validProducts |->
              IF validation.valid
              THEN Append(before.validProducts, validation.product)
              ELSE before.validProducts,
            allErrors |->
              IF validation.valid THEN before.allErrors
              ELSE before.allErrors \o validation.errors]

\* CSVImport.handleFileUpload with the rows Papa.parse delivers.
handleFileUpload(file) ==
  LET r == ValidateRows(file, Len(file), csvImport.categories)
  IN  /\ csvImport.open
      /\ categories' = categories \o r.created
      /\ csvImport' = [csvImport EXCEPT !.csvData = r.validProducts,
                                        !.errors = r.allErrors,
                                        !.importResult = NoResult]
      /\ lastOp' = [op |-> "handleFileUpload"]
      /\ UNCHANGED <<now, products, importRun>>

\* CSVImport.handleImport up to its loop.
handleImport ==
  /\ csvImport.open
  /\ ~csvImport.importing
  /\ IF csvImport.csvData = <<>>
     THEN /\ lastOp' = [op |-> "handleImport", ok |-> FALSE,
                        toast |-> "No data to import"]
          /\ UNCHANGED <<now, products, categories, csvImport, importRun>>
     ELSE /\ csvImport' = [csvImport EXCEPT !.importing = TRUE, !.progress = 0]
          /\ importRun' = [active |-> TRUE, records |-> csvImport.csvData,
                           i |-> 0, successCount |-> 0, failedCount |-> 0]
          /\ lastOp' = [op |-> "handleImport", ok |-> TRUE]
          /\ UNCHANGED <<now, products, categories>>

\* Math.round(((i + 1) / n) * 100).
Progress(done, n) == (200 * done + n) \div (2 * n)

\* One turn of the loop of handleImport: db.products.add of record i, which
\* the storage layer accepts or rejects.
importRecord(rejected) ==
  LET n == Len(importRun.records)
      product == importRun.records[importRun.i + 1]
  IN  /\ importRun.active
      /\ importRun.i < n
      /\ products' = IF rejected THEN products ELSE Append(products, product)
      /\ importRun' =
           [importRun EXCEPT
              !.i = @ + 1,
              !.successCount = IF rejected THEN @ ELSE @ + 1,
              !.failedCount = IF rejected THEN @ + 1 ELSE @]
      /\ csvImport' = [csvImport EXCEPT !.progress = Progress(importRun.i + 1, n)]
      /\ lastOp' = [op |-> "importRecord", ok |-> ~rejected]
      /\ UNCHANGED <<now, categories>>

\* The end of handleImport; refreshed tells whether onImportSuccess was
\* called, toast which toast was shown.
finishImport ==
  /\ importRun.active
  /\ importRun.i = Len(importRun.records)
  /\ csvImport' = [csvImport EXCEPT
                     !.importResult = [success |-> importRun.successCount,
                                       failed |-> importRun.failedCount],
                     !.importing = FALSE]
  /\ importRun' = NoRun
  /\ lastOp' = [op |-> "finishImport",
                refreshed |-> importRun.successCount > 0,
                toast |-> IF importRun.successCount > 0
                          THEN "Import completed" ELSE "Import failed"]
  /\ UNCHANGED <<now, products, categories>>

\* CSVImport.handleClose: the Cancel button, the close of the dialog, or the
\* timer handleImport sets after a successful import.
handleClose ==
  /\ csvImport.open
  /\ csvImport' = [csvImport EXCEPT !.open = FALSE, !.csvData = <<>>,
                                    !.errors = <<>>, !.importResult = NoResult,
                                    !.progress = 0]
  /\ lastOp' = [op |-> "handleClose"]
  /\ UNCHANGED <<now, products, categories, importRun>>

\* The rows of the files of the model: a complete row with the label of a
\* seeded category in another case, a complete row with a new label, and a
\* row with a new label and no name.
CsvRow(name, category, buying_price) ==
  [name |-> name, category |-> category, buying_price |-> buying_price,
   selling_price |-> "5", stock |-> "3", reorder_level |-> ""]

CsvRows ==
  {CsvRow("Soap", "groceries", "5"), CsvRow("Soap", "Toys", "5"),
   CsvRow("", "Toys", "5")}

RECURSIVE CsvFiles(_)
CsvFiles(n) ==
  IF n = 0 THEN {<<>>}
  ELSE CsvFiles(n - 1)
         \cup {Append(f, row) : f \in {g \in CsvFiles(n - 1) : Len(g) = n - 1},
                                row \in CsvRows}

\* The import of the model stops growing the tables: one category beyond
\* the seeded ones before a file is read, a file of products in the table.
MaxCategories == Len(DefaultCategories) + 1

MaxProducts == MaxRows

\* What the Inventory page leaves alone.
OutsideInventory ==
  UNCHANGED <<invoiceVars, clientVars, cart, sales, saleItems, restoreVars>>

\* The application seeds the categories when it loads (db.ts:443), before
\* a page is shown.
Loaded == lastOp # NoOp

NextImport ==
  \/ seedDefaultCategories /\ OutsideInventory
  \/ \E newCategoryName \in {" ", "Toys", "groceries"} :
       /\ Loaded
       /\ Len(categories) < MaxCategories
       /\ handleAddCategory(newCategoryName)
       /\ OutsideInventory
  \/ \E k \in {j \in 1..Len(categories) : categories[j] \in {"Groceries", "Toys"}},
        confirmed \in BOOLEAN :
       Loaded /\ handleDeleteCategory(k, confirmed) /\ OutsideInventory
  \/ Loaded /\ openImport /\ OutsideInventory
  \/ \E file \in CsvFiles(MaxRows) :
       /\ Len(categories) < MaxCategories
       /\ handleFileUpload(file)
       /\ OutsideInventory
  \/ /\ Len(products) + Len(csvImport.csvData) <= MaxProducts
     /\ handleImport
     /\ OutsideInventory
  \/ \E rejected \in BOOLEAN : importRecord(rejected) /\ OutsideInventory
  \/ finishImport /\ OutsideInventory
  \/ handleClose /\ OutsideInventory

\* ----------------------------------------- product import, remote backend
\* CSVImport on the hosted database: the categories are a fixed list and the
\* records are inserted in batches.
PRODUCT_CATEGORIES ==
  {"soaps", "lotions", "oils", "deodorants", "hair_products",
   "petroleum_jelly", "toothpaste", "detergents", "household_hygiene", "other"}

batchSize == 50

\* The dialog is opened; this variant loads nothing.
openImport_remote ==
  /\ ~csvImport.open
  /\ csvImport' = [csvImport EXCEPT !.open = TRUE]
  /\ lastOp' = [op |-> "openImport"]
  /\ UNCHANGED <<now, products, categories, importRun>>

validateRow_remote(row, rowIndex) ==
  LET Error(field) == <<[row |-> rowIndex, field |-> field]>>
      costPrice == parseFloat(row.cost_price)
      sellingPrice == parseFloat(row.selling_price)
      quantity == parseInt(row.quantity_in_stock)
      threshold == IF row.low_stock_threshold # ""
                   THEN parseInt(row.low_stock_threshold)
                   ELSE <<10>>
      rowErrors ==
        (IF Trim(row.name) = "" THEN Error("name") ELSE <<>>)
        \o (IF Trim(row.category) = "" \/ ToLowerCase(row.category) \notin PRODUCT_CATEGORIES
            THEN Error("category") ELSE <<>>)
        \o (IF Trim(row.unit_size) = "" THEN Error("unit_size") ELSE <<>>)
        \o (IF NotNonNegative(costPrice) THEN Error("cost_price") ELSE <<>>)
        \o (IF NotNonNegative(sellingPrice) THEN Error("selling_price") ELSE <<>>)
        \o (IF NotNonNegative(quantity) THEN Error("quantity_in_stock") ELSE <<>>)
        \o (IF NotNonNegative(threshold) THEN Error("low_stock_threshold") ELSE <<>>)
  IN  IF rowErrors # <<>>
      THEN [valid |-> FALSE, errors |-> rowErrors]
      ELSE [valid |-> TRUE,
            product |-> [name |-> Trim(row.name),
                         category |-> ToLowerCase(row.category),
                         unit_size |-> Trim(row.unit_size),
                         cost_price |-> costPrice[1],
                         selling_price |-> sellingPrice[1],
                         quantity_in_stock |-> quantity[1],
                         low_stock_threshold |-> threshold[1]],
            errors |-> <<>>]

\* The forEach of handleFileUpload over the first k rows of the file.
RECURSIVE ValidateRows_remote(_, _)
ValidateRows_remote(file, k) ==
  IF k = 0
  THEN [validProducts |-> <<>>, allErrors |-> <<>>]
  ELSE LET before == ValidateRows_remote(file, k - 1)
           validation == validateRow_remote(file[k], RowNumber(k - 1))
       IN  [validProducts |->
              IF validation.valid
              THEN Append(before.validProducts, validation.product)
              ELSE before.validProducts,
            allErrors |->
              IF validation.valid THEN before.allErrors
              ELSE before.allErrors \o validation.errors]

handleFileUpload_remote(file) ==
  LET r == ValidateRows_remote(file, Len(file))
  IN  /\ csvImport.open
      /\ csvImport' = [csvImport EXCEPT !.csvData = r.validProducts,
                                        !.errors = r.allErrors,
                                        !.importResult = NoResult]
      /\ lastOp' = [op |-> "handleFileUpload"]
      /\ UNCHANGED <<now, products, categories, importRun>>

\* handleImport up to its loop. user is the signed-in user (0: none, which
\* throws and ends the import); F is the set of the records the storage
\* layer will reject, first the size of the table when the loop begins. The
\* Import button is disabled while the file has errors.
handleImport_remote(user, F) ==
  /\ csvImport.open
  /\ ~csvImport.importing
  /\ csvImport.errors = <<>>
  /\ IF csvImport.csvData = <<>> \/ user = 0
     THEN /\ csvImport' = [csvImport EXCEPT !.progress =
                             IF csvImport.csvData = <<>> THEN @ ELSE 0]
          /\ lastOp' = [op |-> "handleImport", ok |-> FALSE,
                        toast |-> IF csvImport.csvData = <<>> THEN "none"
                                  ELSE "Import failed"]
          /\ UNCHANGED <<now, products, categories, importRun>>
     ELSE /\ csvImport' = [csvImport EXCEPT !.importing = TRUE, !.progress = 0]
          /\ importRun' = [active |-> TRUE, records |-> csvImport.csvData,
                           i |-> 0, successCount |-> 0, failedCount |-> 0,
                           user |-> user, F |-> F, first |-> Len(products)]
          /\ lastOp' = [op |-> "handleImport", ok |-> TRUE]
          /\ UNCHANGED <<now, products, categories>>

\* One turn of the loop: one insert of up to batchSize records. The insert
\* is one statement: it stores every record of the batch, or reports an
\* error and stores none.
importBatch ==
  LET n == Len(importRun.records)
      last == IF importRun.i + batchSize < n THEN importRun.i + batchSize ELSE n
      batch == SubSeq(importRun.records, importRun.i + 1, last)
      productsWithCreatedBy ==
        [k \in 1..Len(batch) |->
           [name |-> batch[k].name,
            category |-> batch[k].category,
            unit_size |-> batch[k].unit_size,
            cost_price |-> batch[k].cost_price,
            selling_price |-> batch[k].selling_price,
            quantity_in_stock |-> batch[k].quantity_in_stock,
            low_stock_threshold |-> batch[k].low_stock_threshold,
            created_by |-> importRun.user]]
      error == \E k \in (importRun.i + 1)..last : k \in importRun.F
  IN  /\ importRun.active
      /\ importRun.i < n
      /\ products' = IF error THEN products ELSE products \o productsWithCreatedBy
      /\ importRun' =
           [importRun EXCEPT
              !.i = @ + batchSize,
              !.successCount = IF error THEN @ ELSE @ + Len(batch),
              !.failedCount = IF error THEN @ + Len(batch) ELSE @]
      /\ csvImport' = [csvImport EXCEPT
                         !.progress = Progress(importRun.i + Len(batch), n)]
      /\ lastOp' = [op |-> "importBatch", ok |-> ~error]
      /\ UNCHANGED <<now, categories>>

\* The end of handleImport: a toast is shown only if a batch was stored.
finishImport_remote ==
  /\ importRun.active
  /\ importRun.i >= Len(importRun.records)
  /\ csvImport' = [csvImport EXCEPT
                     !.importResult = [success |-> importRun.successCount,
                                       failed |-> importRun.failedCount],
                     !.importing = FALSE]
  /\ importRun' = NoRun
  /\ lastOp' = [op |-> "finishImport",
                refreshed |-> importRun.successCount > 0,
                toast |-> IF importRun.successCount > 0
                          THEN "Import completed" ELSE "none"]
  /\ UNCHANGED <<now, products, categories>>

CsvRow_remote(name, category) ==
  [name |-> name, category |-> category, unit_size |-> "100g",
   cost_price |-> "3", selling_price |-> "5", quantity_in_stock |-> "2",
   low_stock_threshold |-> ""]

\* A complete row, a complete row whose category is in another case, and a
\* row whose category is not in the list.
CsvRows_remote ==
  {CsvRow_remote("Soap", "soaps"), CsvRow_remote("Lotion", "Lotions"),
   CsvRow_remote("Soap", "Toys")}

RECURSIVE CsvFiles_remote(_)
CsvFiles_remote(n) ==
  IF n = 0 THEN {<<>>}
  ELSE CsvFiles_remote(n - 1)
         \cup {Append(f, row) :
                 f \in {g \in CsvFiles_remote(n - 1) : Len(g) = n - 1},
                 row \in CsvRows_remote}

NextImportRemote ==
  \/ openImport_remote /\ OutsideInventory
  \/ \E file \in CsvFiles_remote(MaxRows) :
       handleFileUpload_remote(file) /\ OutsideInventory
  \/ \E user \in {0, 1}, F \in SUBSET (1..Len(csvImport.csvData)) :
       /\ Len(products) + Len(csvImport.csvData) <= MaxProducts
       /\ handleImport_remote(user, F)
       /\ OutsideInventory
  \/ importBatch /\ OutsideInventory
  \/ finishImport_remote /\ OutsideInventory
  \/ handleClose /\ OutsideInventory

\* -------------------------------------------------- validation of a file
\* The import dialog, open on the seeded categories, with a file chosen in
\* its file input: csvImport.file holds the rows Papa.parse will deliver,
\* csvImport.backend tells which of the two dialogs it is.
ValidationRows ==
  [name : {"Soap", "", " "}, category : {"groceries", "Toys", ""},
   buying_price : {"5", "-1", "x", "2x"}, selling_price : {"5", "x"},
   stock : {"3", "-1"}, reorder_level : {"", "2", "x"}]

ValidationRows_remote ==
  [name : {"Soap", ""}, category : {"soaps", "Lotions", "Toys", ""},
   unit_size : {"100g", ""}, cost_price : {"3", "x"},
   selling_price : {"5", "-1"}, quantity_in_stock : {"2", "x"},
   low_stock_threshold : {"", "2", "x"}]

\* The files with a data row at each position: rows with and without an
\* error.
NumberedRows == {CsvRow("Soap", "groceries", "5"), CsvRow("", "groceries", "5"),
                 CsvRow("Soap", "groceries", "x")}

NumberedRows_remote == {CsvRow_remote("Soap", "soaps"), CsvRow_remote("", "soaps"),
                        CsvRow_remote("Soap", "Toys")}

RECURSIVE FilesOver(_, _)
FilesOver(rows, n) ==
  IF n = 0 THEN {<<>>}
  ELSE FilesOver(rows, n - 1)
         \cup {Append(f, row) : f \in {g \in FilesOver(rows, n - 1) : Len(g) = n - 1},
                                row \in rows}

ChosenFile(backend, file) ==
  [open |-> TRUE,
   categories |-> IF backend = "local" THEN DefaultCategories ELSE <<>>,
   csvData |-> <<>>, errors |-> <<>>, importing |-> FALSE, progress |-> 0,
   importResult |-> NoResult, backend |-> backend, file |-> file]

InitValidate ==
  /\ InitInvoices
  /\ InitBackup
  /\ products = <<>>
  /\ cart = <<>>
  /\ sales = <<>>
  /\ saleItems = <<>>
  /\ importRun = NoRun
  /\ \/ /\ categories = DefaultCategories
        /\ csvImport \in
             {ChosenFile("local", file) :
                file \in {<<row>> : row \in ValidationRows}
                          \cup FilesOver(NumberedRows, MaxRows)}
     \/ /\ categories = <<>>
        /\ csvImport \in
             {ChosenFile("remote", file) :
                file \in {<<row>> : row \in ValidationRows_remote}
                          \cup FilesOver(NumberedRows_remote, MaxRows)}

\* The change event of the file input.
NextValidate ==
  \/ /\ csvImport.backend = "local"
     /\ Len(categories) < MaxCategories
     /\ handleFileUpload(csvImport.file)
     /\ OutsideInventory
  \/ /\ csvImport.backend = "remote"
     /\ handleFileUpload_remote(csvImport.file)
     /\ OutsideInventory

\* ------------------------------------------------------ backup and restore
\* LocalDatabase.exportData and LocalDatabase.importData. Here every table
\* is the sequence of its records in the order of their ids, the record at
\* position k having id k, and a record is known by its id and by where it
\* comes from.
Tables ==
  <<"users", "products", "sales", "saleItems", "categories", "invoices",
    "invoiceItems", "invoicePayments">>

\* The tables importData clears when the user chooses to clear.
ClearedTables == {"users", "products", "sales", "saleItems", "categories"}

Database ==
  [users |-> users, products |-> products, sales |-> sales,
   saleItems |-> saleItems, categories |-> categories, invoices |-> invoices,
   invoiceItems |-> invoiceItems, invoicePayments |-> invoicePayments]

Records(from, n) == [k \in 1..n |-> [id |-> k, from |-> from]]

\* The database holds at most one record in each table; the backup document
\* was written by another installation and holds the same number of records
\* in each table.
InitRestore ==
  /\ now = 0
  /\ page = "list"
  /\ routeId = 0
  /\ invoice = NoInvoice
  /\ pc = "idle"
  /\ lastOp = NoOp
  /\ clients = [c \in Clients |-> IdleClient]
  /\ overlapped = FALSE
  /\ cart = <<>>
  /\ csvImport = ClosedDialog
  /\ importRun = NoRun
  /\ users \in {Records("store", 1)}
  /\ products \in {<<>>, Records("store", 1)}
  /\ sales \in {<<>>, Records("store", 1)}
  /\ saleItems = sales
  /\ categories \in {<<>>, Records("store", 1)}
  /\ invoices \in {<<>>, Records("store", 1)}
  /\ invoiceItems = invoices
  /\ invoicePayments \in {<<>>, invoices}
  /\ backup \in {[t \in {Tables[k] : k \in 1..Len(Tables)} |-> Records("backup", n)] :
                   n \in 0..MaxBackup}

\* exportData: the document holds every table as it is.
exportData ==
  /\ backup' = [t \in {Tables[k] : k \in 1..Len(Tables)} |-> Database[t]]
  /\ lastOp' = [op |-> "exportData"]
  /\ UNCHANGED <<now, users, products, sales, saleItems, categories, invoices,
                 invoiceItems, invoicePayments>>

\* Table.bulkAdd of records that carry their ids: a record whose id is
\* taken is rejected and the call fails. stored tells whether the records
\* that were not rejected are kept when the call fails.
bulkAdd(table, records, stored) ==
  LET failed == Len(table) > 0 /\ Len(records) > 0
      accepted == SubSeq(records, Len(table) + 1, Len(records))
  IN  [table |-> IF failed /\ ~stored THEN table ELSE table \o accepted,
       failed |-> failed]

\* The bulkAdd calls of importData from the k-th table on, which end at the
\* first call that fails.
RECURSIVE AddTables(_, _, _, _)
AddTables(db, data, k, stored) ==
  IF k > Len(Tables) THEN [db |-> db, ok |-> TRUE]
  ELSE LET t == Tables[k]
           added == bulkAdd(db[t], data[t], stored)
           after == [db EXCEPT ![t] = added.table]
       IN  IF added.failed THEN [db |-> after, ok |-> FALSE]
           ELSE AddTables(after, data, k + 1, stored)

\* importData on the chosen document; shouldClearExisting is the answer to
\* the confirm() prompt.
importData(shouldClearExisting, stored) ==
  LET cleared == [t \in DOMAIN Database |->
                    IF shouldClearExisting /\ t \in ClearedTables THEN <<>>
                    ELSE Database[t]]
      r == AddTables(cleared, backup, 1, stored)
  IN  /\ backup # NoBackup
      /\ users' = r.db.users
      /\ products' = r.db.products
      /\ sales' = r.db.sales
      /\ saleItems' = r.db.saleItems
      /\ categories' = r.db.categories
      /\ invoices' = r.db.invoices
      /\ invoiceItems' = r.db.invoiceItems
      /\ invoicePayments' = r.db.invoicePayments
      /\ lastOp' = [op |-> "importData", clear |-> shouldClearExisting,
                    ok |-> r.ok]
      /\ UNCHANGED <<now, backup>>

\* What the Dashboard's backup and restore leave alone.
OutsideBackup ==
  UNCHANGED <<page, routeId, invoice, pc, clientVars, cart, csvImport, importRun>>

NextRestore ==
  \/ exportData /\ OutsideBackup
  \/ \E shouldClearExisting \in BOOLEAN, stored \in BOOLEAN :
       importData(shouldClearExisting, stored) /\ OutsideBackup

\* ------------------------------------------------- the two VAT conventions
\* The lines of a sale as the receipt shows them, and the same quantities
\* and prices as lines of an invoice. Prices are whole shillings. The
\* receipt's amounts are counted in ReceiptUnits-th parts of a shilling, in
\* which the VAT of a VAT-inclusive amount is a whole number; the invoice's
\* amounts are in hundredths, as in calculateItemTotal.
ReceiptUnits == 25 * (100 + VatRatePercent)

VAT_INCLUSIVE_off == FALSE

VAT_INCLUSIVE == TRUE

\* ReceiptDialog.calculateVAT and Reports.calculateVATForAmount:
\* amount * VAT_RATE / (1 + VAT_RATE), or amount * VAT_RATE.
calculateVAT(amount) ==
  IF VAT_INCLUSIVE
  THEN (amount * VatRatePercent) \div (100 + VatRatePercent)
  ELSE (amount * VatRatePercent) \div 100

\* ReceiptDialog: the lines with their VAT, and the totals of the receipt.
itemsWithVat(items) ==
  [k \in 1..Len(items) |->
     LET subtotal == items[k].price * items[k].quantity * ReceiptUnits
         vat == calculateVAT(subtotal)
     IN  [price |-> items[k].price, quantity |-> items[k].quantity,
          subtotal |-> subtotal, vat |-> vat, net |-> subtotal - vat]]

\* The receipt of the sale of the cart: processPayment hands the cart and
\* its total to the dialog.
ReceiptDialog ==
  LET lines == itemsWithVat(cart)
      totalVAT == SumSeq([k \in 1..Len(lines) |-> lines[k].vat])
  IN  /\ lastOp' = [op |-> "ReceiptDialog", items |-> lines,
                    total |-> total * ReceiptUnits, totalVAT |-> totalVAT,
                    totalNet |-> total * ReceiptUnits - totalVAT]
      /\ UNCHANGED <<now, products, cart, sales, saleItems>>

\* InvoiceCreate's line totals for the same quantities and prices.
invoiceLines ==
  /\ lastOp' =
       [op |-> "calculateItemTotal",
        items |-> [k \in 1..Len(cart) |->
                     [quantity |-> cart[k].quantity,
                      unitPrice |-> cart[k].price,
                      totals |-> calculateItemTotal(
                                   [quantity |-> cart[k].quantity,
                                    unitPrice |-> cart[k].price])]]]
  /\ UNCHANGED <<now, products, cart, sales, saleItems>>

SaleLines ==
  {[productId |-> 1, name |-> "Soap", price |-> price, quantity |-> quantity] :
     price \in 0..MaxPrice, quantity \in 1..MaxQuantity}

InitVat ==
  /\ InitInvoices
  /\ InitBackup
  /\ products = <<>>
  /\ sales = <<>>
  /\ saleItems = <<>>
  /\ categories = <<>>
  /\ csvImport = ClosedDialog
  /\ importRun = NoRun
  /\ cart \in {<<line>> : line \in SaleLines}
              \cup {<<line, [other EXCEPT !.productId = 2, !.name = "Lotion"]>> :
                      line \in SaleLines, other \in SaleLines}

NextVat ==
  \/ ReceiptDialog /\ OutsidePOS
  \/ invoiceLines /\ OutsidePOS

\* ------------------------------------------------------- sales CSV import
\* SalesCSVImport on the Reports page. The receipt numbers here are the
\* strings of the file and of the sales table.
\* row['Items'].split(', ') with the pieces that match "name (quantity)".
ParseItems(itemsText) ==
  CASE itemsText = "Soap (2)" -> <<[name |-> "Soap", quantity |-> 2]>>
    [] itemsText = "Soap (1), Lotion (1)" ->
         <<[name |-> "Soap", quantity |-> 1], [name |-> "Lotion", quantity |-> 1]>>
    [] OTHER -> <<>>

\* db.products.where('name').equals(name).first(): the id, 0 if none.
ProductNamed(name) ==
  LET found == {p \in 1..Len(products) : products[p].name = name}
  IN  IF found = {} THEN 0 ELSE CHOOSE p \in found : \A q \in found : p <= q

\* Variant of SaleExists that finds no sale.
SaleExists_never(table, receiptNumber) == FALSE

\* db.sales.where('receiptNumber').equals(receiptNumber).first() finds a
\* sale.
SaleExists(table, receiptNumber) ==
  \E k \in 1..Len(table) : table[k].receiptNumber = receiptNumber

\* The loop of handleFileUpload over the first k rows: db holds the sales
\* and sale items tables and the two counters.
RECURSIVE ImportSales(_, _, _, _)
ImportSales(rows, k, userId, db) ==
  IF k = 0 THEN db
  ELSE LET before == ImportSales(rows, k - 1, userId, db)
           row == rows[k]
           items == ParseItems(row.Items)
           saleId == Len(before.sales) + 1
           amount == parseFloat(row.TotalAmount)
           sale == [id |-> saleId,
                    receiptNumber |-> row.ReceiptNumber,
                    totalAmount |-> IF amount = <<>> THEN 0 ELSE amount[1],
                    amountPaid |-> IF amount = <<>> THEN 0 ELSE amount[1],
                    change |-> 0,
                    cashierId |-> userId,
                    createdAt |-> now]
           saleItem(item) ==
             LET product == ProductNamed(item.name)
                 unitPrice == IF product = 0 THEN 0
                              ELSE products[product].sellingPrice
             IN  [saleId |-> saleId, productId |-> product,
                  quantity |-> item.quantity, price |-> unitPrice,
                  subtotal |-> unitPrice * item.quantity]
       IN  IF row.ReceiptNumber = "" THEN before
           ELSE IF SaleExists(before.sales, row.ReceiptNumber)
           THEN [before EXCEPT !.skipped = @ + 1]
           ELSE [sales |-> Append(before.sales, sale),
                 saleItems |-> before.saleItems
                                 \o [i \in 1..Len(items) |-> saleItem(items[i])],
                 imported |-> before.imported + 1,
                 skipped |-> before.skipped]

\* SalesCSVImport.handleFileUpload with the rows Papa.parse delivers; userId
\* is the id of the signed-in user (the page shows the import to an
\* administrator).
handleFileUpload_sales(file, userId) ==
  LET r == ImportSales(file, Len(file), userId,
                       [sales |-> sales, saleItems |-> saleItems,
                        imported |-> 0, skipped |-> 0])
  IN  /\ sales' = r.sales
      /\ saleItems' = r.saleItems
      /\ lastOp' = [op |-> "SalesCSVImport", file |-> file,
                    imported |-> r.imported, skipped |-> r.skipped]
      /\ UNCHANGED <<now, products, cart>>

SalesRows ==
  [ReceiptNumber : {"", "RCP-1", "RCP-2"},
   Items : {"Soap (1), Lotion (1)", ""},
   TotalAmount : {"5"}]

\* The sales table holds no sale, or the sale RCP-1 made at the till.
InitSalesImport ==
  /\ InitInvoices
  /\ InitBackup
  /\ products = <<[name |-> "Soap", category |-> "Personal Care", stock |-> 0,
                   sellingPrice |-> 1]>>
  /\ cart = <<>>
  /\ categories = <<>>
  /\ csvImport = ClosedDialog
  /\ importRun = NoRun
  /\ \/ sales = <<>> /\ saleItems = <<>>
     \/ /\ sales = <<[id |-> 1, receiptNumber |-> "RCP-1", totalAmount |-> 2,
                       amountPaid |-> 2, change |-> 0, cashierId |-> 1,
                       createdAt |-> 0]>>
        /\ saleItems = <<[saleId |-> 1, productId |-> 1, quantity |-> 2,
                          price |-> 1, subtotal |-> 2]>>

NextSalesImport ==
  \E file \in FilesOver(SalesRows, MaxRows), userId \in {1} :
     handleFileUpload_sales(file, userId) /\ OutsidePOS

\* ------------------------------------------ payments by two submissions
\* Each client is one submission of the payment dialog: the dialogs of two
\* sessions viewing the same invoice, or one dialog whose "Record Payment"
\* button (never disabled) is pressed again while the first press awaits the
\* database. The dialog works on the invoice object the view read last.
\* InvoiceView.loadInvoice of client c, opening the view of a stored invoice.
loadInvoice_view(c, invoiceId) ==
  /\ clients[c].stage = "idle"
  /\ invoiceId \in InvoiceIds
  /\ invoices' = [invoices EXCEPT ![invoiceId] = updateInvoiceStatus(@, now)]
  /\ clients' = [clients EXCEPT ![c] =
                   [stage |-> "view", invoice |-> invoices'[invoiceId]]]
  /\ UNCHANGED <<now, invoiceItems, invoicePayments, page, routeId, invoice,
                 pc, lastOp, overlapped>>

\* handleRecordPayment up to the return of db.invoicePayments.add: the two
\* checks against the dialog's invoice, then the payment row.
handleRecordPayment_add(c, amount) ==
  LET f == clients[c]
  IN  /\ f.stage = "view"
      /\ f.invoice.status # "paid" /\ f.invoice.status # "cancelled"
      /\ ~invalidPayment(f.invoice, amount)
      /\ invoicePayments' =
           Append(invoicePayments,
                  [invoiceId |-> f.invoice.id, amount |-> amount])
      /\ clients' = [clients EXCEPT ![c] =
                       [stage |-> "added", invoice |-> f.invoice,
                        amount |-> amount]]
      /\ overlapped' =
           (overlapped \/ \E d \in Clients \ {c} :
                            /\ clients[d].stage = "added"
                            /\ clients[d].invoice.id = f.invoice.id)
      /\ UNCHANGED <<now, invoices, invoiceItems, page, routeId, invoice, pc,
                     lastOp>>

\* The rest of handleRecordPayment: the invoice is updated from the dialog's
\* invoice, and handlePaymentRecorded has the view reload.
handleRecordPayment_update(c) ==
  LET f == clients[c]
      upd == paymentUpdate(f.invoice, f.amount)
  IN  /\ f.stage = "added"
      /\ invoices' = [invoices EXCEPT ![f.invoice.id] =
                        [@ EXCEPT !.amountPaid = upd.amountPaid,
                                  !.balanceDue = upd.balanceDue,
                                  !.status = upd.status,
                                  !.updatedAt = now]]
      /\ clients' = [clients EXCEPT ![c] =
                       [stage |-> "load", id |-> f.invoice.id]]
      /\ UNCHANGED <<now, invoiceItems, invoicePayments, page, routeId,
                     invoice, pc, lastOp, overlapped>>

NextPayments ==
  \/ \E status \in {"draft", "sent"}, customerName \in CustomerNames,
        dueDate \in DueDates, lineItems \in FormLineItems :
       /\ Len(invoices) < MaxInvoices
       /\ saveInvoice(0, status, customerName, dueDate, lineItems)
       /\ SingleSession
  \/ \E c \in Clients, invoiceId \in InvoiceIds :
       loadInvoice_view(c, invoiceId) /\ ShopIdle
  \/ \E c \in Clients :
       /\ Len(invoicePayments) < MaxPayments + 1
       /\ clients[c].stage = "view"
       /\ \E amount \in PaymentAmounts(clients[c].invoice.balanceDue) :
            handleRecordPayment_add(c, amount) /\ ShopIdle
  \/ \E c \in Clients : handleRecordPayment_update(c) /\ ShopIdle
  \/ \E c \in Clients : loadInvoice_saved(c) /\ ShopIdle

Spec == Init /\ [][Next]_vars

SpecTotals == Init /\ [][NextTotals]_vars

SpecPOS == InitPOS /\ [][NextPOS]_vars

SpecImport == Init /\ [][NextImport]_vars

SpecImportRemote == Init /\ [][NextImportRemote]_vars

SpecValidate == InitValidate /\ [][NextValidate]_vars

SpecRestore == InitRestore /\ [][NextRestore]_vars

SpecVat == InitVat /\ [][NextVat]_vars

SpecSalesImport == InitSalesImport /\ [][NextSalesImport]_vars

SpecNumbering == Init /\ [][NextNumbering]_vars

SpecPayments == Init /\ [][NextPayments]_vars

\* ================================================================ claims
NoNumber == <<>>

\* The invoices the step just taken ran updateInvoiceStatus on.
Refreshed(i) ==
  /\ lastOp'.op \in {"loadInvoice", "loadInvoices"}
  /\ i \in lastOp'.ids

\* C1: once an invoice is cancelled its status never changes again (it never
\* becomes overdue, whatever the date) and no payment is recorded for it.
C1_CancelledIsTerminal ==
  [][\A i \in InvoiceIds :
       invoices[i].status = "cancelled" =>
         /\ invoices'[i].status = "cancelled"
         /\ (Len(invoicePayments') > Len(invoicePayments) =>
               invoicePayments'[Len(invoicePayments')].invoiceId # i)]_vars

C3_RejectedPaymentChangesNothing ==
  [][( /\ lastOp'.op = "recordPayment"
       /\ \E i \in lastOp'.ids :
            lastOp'.amount <= 0 \/ lastOp'.amount > invoices[i].balanceDue )
     => /\ invoices' = invoices
        /\ invoicePayments' = invoicePayments]_vars

\* An overpayment has been submitted on an invoice with an open balance.
C3_Witness ==
  /\ lastOp.op = "recordPayment"
  /\ ~lastOp.ok
  /\ \E i \in lastOp.ids :
       invoices[i].balanceDue > 0 /\ lastOp.amount > invoices[i].balanceDue

\* C4: every stored invoice has balanceDue = totalAmount - amountPaid.
C4_BalanceDue ==
  \A i \in InvoiceIds :
    invoices[i].balanceDue = invoices[i].totalAmount - invoices[i].amountPaid

\* An invoice is partly paid.
C4_Witness ==
  \E i \in InvoiceIds :
    invoices[i].amountPaid > 0 /\ invoices[i].balanceDue > 0

ListedTransition(from, to) ==
  \/ from = "draft" /\ to = "sent"
  \/ from = "sent" /\ to \in {"paid", "overdue"}
  \/ from \in {"draft", "sent", "overdue"} /\ to = "cancelled"

\* C7: every status change is a listed transition (draft->sent, sent->paid,
\* sent->overdue, non-terminal->cancelled), and every invoice is created as a
\* draft.
C7_OnlyListedTransitions ==
  [][/\ \A i \in InvoiceIds :
          invoices'[i].status # invoices[i].status =>
            ListedTransition(invoices[i].status, invoices'[i].status)
     /\ Len(invoices') > Len(invoices) =>
          invoices'[Len(invoices')].status = "draft"]_vars

\* C8: a refresh of a sent invoice with an open balance and a due date before
\* the current date leaves it overdue.
C8_SentPastDueBecomesOverdue ==
  [][\A i \in InvoiceIds :
       ( /\ Refreshed(i)
         /\ invoices[i].status = "sent"
         /\ invoices[i].balanceDue > 0
         /\ invoices[i].dueDate < now )
       => invoices'[i].status = "overdue"]_vars

\* The view has just refreshed a sent invoice past its due date.
C8_Witness ==
  /\ lastOp.op = "loadInvoice"
  /\ lastOp.pre = "sent"
  /\ \E i \in lastOp.ids :
       /\ invoices[i].status = "overdue"
       /\ invoices[i].balanceDue > 0
       /\ invoices[i].dueDate < now

\* C9: a refresh that finds the status it computes already stored writes
\* nothing (updatedAt included), and a second refresh at the same date
\* changes nothing the first left.
C9_RefreshIdempotent ==
  [][\A i \in InvoiceIds :
       Refreshed(i) =>
         /\ invoices'[i].status = invoices[i].status => invoices'[i] = invoices[i]
         /\ updateInvoiceStatus(invoices'[i], now') = invoices'[i]]_vars

\* A refresh has found nothing to change on an invoice last written earlier.
C9_Witness ==
  /\ lastOp.op = "loadInvoice"
  /\ \E i \in lastOp.ids :
       /\ lastOp.pre = invoices[i].status
       /\ invoices[i].updatedAt < now

C11_SequentialNumbersUnique ==
  ~overlapped =>
    \A i, j \in InvoiceIds :
      i # j => invoices[i].invoiceNumber # invoices[j].invoiceNumber

\* Two clients have both counted on the same day with the same invoices
\* stored, and neither has added its invoice yet.
CountedTogether(c, d) ==
  /\ c # d
  /\ clients[c].stage = "numbered" /\ clients[d].stage = "numbered"
  /\ clients[c].seen = clients[d].seen
  /\ UtcDay(clients[c].at) = UtcDay(clients[d].at)
  /\ LocalDayStart(clients[c].at) = LocalDayStart(clients[d].at)

\* C12: two saveInvoice runs that both count before either adds, on the same
\* day, hold the same number, and each stores the number it holds without
\* looking again, so the two invoices are stored with one invoiceNumber.
C12_RacingSavesShareNumber ==
  [][/\ \A c, d \in Clients :
          CountedTogether(c, d)' =>
            clients'[c].invoiceNumber = clients'[d].invoiceNumber
     /\ \A c \in Clients :
          (clients[c].stage = "numbered" /\ clients'[c].stage = "load")
            => /\ Len(invoices') = Len(invoices) + 1
               /\ invoices'[Len(invoices')].invoiceNumber =
                    clients[c].invoiceNumber]_vars

\* Two invoices created at the same time by overlapping saves are stored
\* with the same number.
C12_Witness ==
  /\ overlapped
  /\ \E i, j \in InvoiceIds :
       /\ i # j
       /\ invoices[i].createdAt = invoices[j].createdAt
       /\ invoices[i].invoiceNumber = invoices[j].invoiceNumber

\* The stored rows of invoice i in a table of invoice items.
ItemsOf(items, i) == {it \in items : it.invoiceId = i}

RowsOf(i) ==
  [k \in 1..Cardinality(ItemsOf(invoiceItems, i)) |->
     CHOOSE it \in ItemsOf(invoiceItems, i) : it.line = k]

\* C14: the stored subtotal, vatAmount and totalAmount of every invoice are
\* the sums of the subtotal, vatAmount and total of its stored line items.
C14_AggregatesAreLineSums ==
  \A i \in InvoiceIds :
    LET rows == RowsOf(i)
    IN  /\ invoices[i].subtotal = SumSeq([k \in 1..Len(rows) |-> rows[k].subtotal])
        /\ invoices[i].vatAmount =
             F64Sum([k \in 1..Len(rows) |-> rows[k].vatAmount])
        /\ invoices[i].totalAmount =
             F64Sum([k \in 1..Len(rows) |-> rows[k].total])

\* C15: no product's stored stock is below 0.
C15_StockNonNegative ==
  \A p \in ProductIds : products[p].stock >= 0

\* C16: reading a file creates each new category once: a category that
\* handleFileUpload adds is the only stored category of its name, and every
\* product it accepts names a stored category exactly.
C16_OneCategoryPerLabel ==
  [][lastOp'.op = "handleFileUpload" =>
       /\ \A k \in (Len(categories) + 1)..Len(categories') :
            Cardinality({j \in 1..Len(categories') :
                           categories'[j] = categories'[k]}) = 1
       /\ \A p \in 1..Len(csvImport'.csvData) :
            ToLowerCase(csvImport'.csvData[p].category)
              \notin {ToLowerCase(categories[k]) : k \in 1..Len(categories)}
            => \E k \in (Len(categories) + 1)..Len(categories') :
                 categories'[k] = csvImport'.csvData[p].category]_vars

\* C17: no two stored categories have names that are equal ignoring case.
C17_CategoryNamesUnique ==
  \A i, j \in 1..Len(categories) :
    i # j => ToLowerCase(categories[i]) # ToLowerCase(categories[j])

\* C18: handleDeleteCategory removes a category only if no stored product
\* has a category equal to its name ignoring case.
C18_UsedCategoryKept ==
  [][lastOp'.op = "handleDeleteCategory" /\ lastOp'.ok =>
       productsWithCategory_anyCase(lastOp'.name) = 0]_vars

\* C19: the validation pass of handleFileUpload writes nothing to the
\* product store or to the category store.
C19_ValidationWritesNothing ==
  [][lastOp'.op = "handleFileUpload" =>
       categories' = categories /\ products' = products]_vars

\* C20: an import ends with failedCount the number of the records the
\* storage layer rejected and successCount the number of the others, and
\* every record that was not rejected is in the table.
C20_PerRecordImport ==
  [][lastOp'.op = "finishImport" =>
       LET n == Len(importRun.records)
           F == importRun.F
       IN  /\ importRun.failedCount = Cardinality(F)
           /\ importRun.successCount = n - Cardinality(F)
           /\ Len(products) - importRun.first = n - Cardinality(F)
           /\ \A k \in (1..n) \ F :
                \E p \in (importRun.first + 1)..Len(products) :
                  /\ products[p].name = importRun.records[k].name
                  /\ products[p].category = importRun.records[k].category]_vars

\* The cells that are missing, and the cells that read as a number that is
\* not negative.
Blank(cell) == cell \in {"", " "}

ReadsNonNegative(cell) == cell \in {"0", "2", "3", "5", "2x"}

Failing(field, failing) == IF failing THEN <<field>> ELSE <<>>

\* The fields of a row that fail, in the order validateRow looks at them.
FailingFields(row) ==
  Failing("name", Blank(row.name))
    \o Failing("category", Blank(row.category))
    \o Failing("buying_price", ~ReadsNonNegative(row.buying_price))
    \o Failing("selling_price", ~ReadsNonNegative(row.selling_price))
    \o Failing("stock", ~ReadsNonNegative(row.stock))
    \o Failing("reorder_level",
               row.reorder_level # "" /\ ~ReadsNonNegative(row.reorder_level))

FailingFields_remote(row) ==
  Failing("name", Blank(row.name))
    \o Failing("category", ToLowerCase(row.category) \notin PRODUCT_CATEGORIES)
    \o Failing("unit_size", Blank(row.unit_size))
    \o Failing("cost_price", ~ReadsNonNegative(row.cost_price))
    \o Failing("selling_price", ~ReadsNonNegative(row.selling_price))
    \o Failing("quantity_in_stock", ~ReadsNonNegative(row.quantity_in_stock))
    \o Failing("low_stock_threshold",
               row.low_stock_threshold # ""
                 /\ ~ReadsNonNegative(row.low_stock_threshold))

\* C21: validateRow, run on the one row of a file, reports one error for
\* each failing field and no other; the row is among the valid records if
\* and only if it has no error; and a valid record holds numbers in its
\* numeric fields, with reorder level 10 when the row gives none.
C21_RowsClassifiedByField ==
  [][lastOp'.op = "handleFileUpload" /\ Len(csvImport.file) = 1 =>
       LET row == csvImport.file[1]
           local == csvImport.backend = "local"
           failing == IF local THEN FailingFields(row) ELSE FailingFields_remote(row)
           found == csvImport'.errors
           valid == csvImport'.csvData
       IN  /\ Len(found) = Len(failing)
           /\ \A k \in 1..Len(found) : found[k].field = failing[k]
           /\ Len(valid) = (IF failing = <<>> THEN 1 ELSE 0)
           /\ \A k \in 1..Len(valid) :
                IF local
                THEN /\ {valid[k].buyingPrice, valid[k].sellingPrice,
                         valid[k].stock, valid[k].reorderLevel} \subseteq Nat
                     /\ row.reorder_level = "" => valid[k].reorderLevel = 10
                ELSE /\ {valid[k].cost_price, valid[k].selling_price,
                         valid[k].quantity_in_stock,
                         valid[k].low_stock_threshold} \subseteq Nat
                     /\ row.low_stock_threshold = ""
                          => valid[k].low_stock_threshold = 10]_vars

\* A row whose only defect is its missing name has been validated: one
\* error, on the field name.
C21_Witness ==
  /\ lastOp.op = "handleFileUpload"
  /\ Len(csvImport.file) = 1
  /\ Blank(csvImport.file[1].name)
  /\ Len(csvImport.errors) = 1
  /\ csvImport.errors[1].field = "name"
  /\ csvImport.csvData = <<>>

\* The errors of the rows at the zero-based positions below n, each with
\* the number of its row.
RECURSIVE NumberedErrors(_, _, _)
NumberedErrors(file, n, local) ==
  IF n = 0 THEN <<>>
  ELSE LET i == n - 1
           failing == IF local THEN FailingFields(file[i + 1])
                      ELSE FailingFields_remote(file[i + 1])
       IN  NumberedErrors(file, n - 1, local)
             \o [k \in 1..Len(failing) |-> [row |-> i + 2, field |-> failing[k]]]

\* C25: every error handleFileUpload reports for the data row at the
\* zero-based position i of the file carries row = i + 2.
C25_RowNumbersCountHeader ==
  [][lastOp'.op = "handleFileUpload" =>
       csvImport'.errors =
         NumberedErrors(csvImport.file, Len(csvImport.file),
                        csvImport.backend = "local")]_vars

\* A file whose first two data rows fail has been read: its errors carry
\* the rows 2 and 3.
C25_Witness ==
  /\ lastOp.op = "handleFileUpload"
  /\ Len(csvImport.file) >= 2
  /\ Len(csvImport.errors) >= 2
  /\ csvImport.errors[1].row = 2
  /\ csvImport.errors[2].row = 3

\* The user is told that the import failed: by a toast, or by the result
\* line of the dialog, which is red when records failed and is visible
\* while the dialog is open.
ReportedFailed ==
  \/ lastOp.toast \in {"Import failed", "No data to import"}
  \/ /\ csvImport.open
     /\ csvImport.importResult # NoResult
     /\ csvImport.importResult.failed > 0

\* C22: when an import completes, onImportSuccess is called if successCount
\* is above 0; if it is 0, onImportSuccess is not called and the user is
\* told that the import failed.
C22_RefreshIffImported ==
  [][lastOp'.op = "finishImport" =>
       IF importRun.successCount > 0
       THEN lastOp'.refreshed
       ELSE ~lastOp'.refreshed /\ ReportedFailed']_vars

\* C23: once the dialog is closed during an import and the record then in
\* flight is done (the progress, reset by the close, has moved again), no
\* further record is inserted; and the close leaves the stored products as
\* they are.
C23_CloseStopsImport ==
  [][/\ lastOp'.op = "handleClose" => products' = products
     /\ ~(/\ importRun.active
          /\ ~csvImport.open
          /\ csvImport.progress > 0
          /\ lastOp'.op = "importRecord")]_vars

\* C24: after importData with the clear choice every one of the eight
\* tables holds exactly the records of the backup document; with the
\* merge choice every table holds its records followed by those of the
\* document.
C24_RestoreReplacesOrAppends ==
  [][lastOp'.op = "importData" =>
       \A k \in 1..Len(Tables) :
         Database'[Tables[k]] =
           IF lastOp'.clear THEN backup[Tables[k]]
           ELSE Database[Tables[k]] \o backup[Tables[k]]]_vars

\* C26: an invoice line has subtotal = quantity * price, VAT 16/100 of the
\* subtotal and total = subtotal + VAT; a receipt line has subtotal =
\* quantity * price, VAT 16/116 of the subtotal and net = subtotal - VAT,
\* and the total of the receipt is the sum of the subtotals of its lines.
C26_VatConventionsApart ==
  /\ lastOp.op = "calculateItemTotal" =>
       \A k \in 1..Len(lastOp.items) :
         LET line == lastOp.items[k]
         IN  /\ line.totals.subtotal = line.quantity * line.unitPrice * 100
             /\ line.totals.vatAmount * 100 = line.totals.subtotal * 16
             /\ line.totals.total = line.totals.subtotal + line.totals.vatAmount
  /\ lastOp.op = "ReceiptDialog" =>
       /\ \A k \in 1..Len(lastOp.items) :
            LET line == lastOp.items[k]
            IN  /\ line.subtotal = line.quantity * line.price * ReceiptUnits
                /\ line.vat * 116 = line.subtotal * 16
                /\ line.net = line.subtotal - line.vat
       /\ lastOp.total =
            SumSeq([k \in 1..Len(lastOp.items) |-> lastOp.items[k].subtotal])

\* A receipt of two lines with VAT has been drawn up.
C26_Witness ==
  /\ lastOp.op = "ReceiptDialog"
  /\ Len(lastOp.items) = 2
  /\ \A k \in 1..2 : lastOp.items[k].vat > 0

\* C27: a sales import stores a sale only for a receipt number that no
\* stored sale and no earlier row of the file has, with sale items for the
\* new sales only; the sales of the table have different receipt numbers;
\* and the same file imported a second time stores nothing.
C27_SalesImportSkipsDuplicates ==
  [][lastOp'.op = "SalesCSVImport" =>
       LET old == 1..Len(sales)
           new == (Len(sales) + 1)..Len(sales')
       IN  /\ SubSeq(sales', 1, Len(sales)) = sales
           /\ SubSeq(saleItems', 1, Len(saleItems)) = saleItems
           /\ \A k \in new :
                /\ \A j \in old : sales[j].receiptNumber # sales'[k].receiptNumber
                /\ \A j \in new : j # k =>
                     sales'[j].receiptNumber # sales'[k].receiptNumber
           /\ \A i \in (Len(saleItems) + 1)..Len(saleItems') :
                saleItems'[i].saleId \in new
           /\ (lastOp.op = "SalesCSVImport" /\ lastOp.file = lastOp'.file) =>
                (sales' = sales /\ saleItems' = saleItems)]_vars

\* A file of two rows with the same new receipt number has been imported:
\* one sale stored, one row skipped.
C27_Witness ==
  /\ lastOp.op = "SalesCSVImport"
  /\ Len(lastOp.file) = 2
  /\ lastOp.file[1].ReceiptNumber = "RCP-2"
  /\ lastOp.file[2].ReceiptNumber = "RCP-2"
  /\ lastOp.imported = 1
  /\ lastOp.skipped = 1

\* C28: a checkout of a cart with lines by a signed-in user stores one sale
\* and one sale item for each line of the cart, with subtotal = price *
\* quantity and the sale's totalAmount their sum, takes the quantity of each
\* line from the stock of its product and empties the cart; a checkout of
\* an empty cart or without a user leaves sales, sale items and stock as
\* they are.
C28_CheckoutEffect ==
  [][lastOp'.op = "processPayment" =>
       IF lastOp'.ok
       THEN LET saleId == Len(sales) + 1
                created == SubSeq(saleItems', Len(saleItems) + 1, Len(saleItems'))
            IN  /\ cart # <<>>
                /\ Len(sales') = Len(sales) + 1
                /\ SubSeq(sales', 1, Len(sales)) = sales
                /\ SubSeq(saleItems', 1, Len(saleItems)) = saleItems
                /\ Len(created) = Len(cart)
                /\ \A k \in 1..Len(cart) :
                     /\ created[k].saleId = saleId
                     /\ created[k].productId = cart[k].productId
                     /\ created[k].quantity = cart[k].quantity
                     /\ created[k].subtotal = cart[k].price * cart[k].quantity
                /\ sales'[saleId].totalAmount =
                     SumSeq([k \in 1..Len(created) |-> created[k].subtotal])
                /\ \A p \in ProductIds :
                     products'[p].stock =
                       products[p].stock
                         - SumSeq([k \in 1..Len(cart) |->
                                     IF cart[k].productId = p
                                     THEN cart[k].quantity ELSE 0])
                /\ cart' = <<>>
       ELSE /\ cart = <<>> \/ lastOp'.ids = {}
            /\ sales' = sales
            /\ saleItems' = saleItems
            /\ products' = products]_vars

\* A cart of two lines has been checked out.
C28_Witness ==
  /\ lastOp.op = "processPayment"
  /\ lastOp.ok
  /\ Len(sales) = 1
  /\ Len(saleItems) = 2
  /\ cart = <<>>

\* C29: the amountPaid of every invoice is the sum of the amounts of the
\* payments recorded for it.
C29_AmountPaidIsSumOfPayments ==
  \A i \in InvoiceIds :
    invoices[i].amountPaid =
      SumSeq([k \in 1..Len(invoicePayments) |->
                IF invoicePayments[k].invoiceId = i
                THEN invoicePayments[k].amount ELSE 0])

\* The sum of the amounts of the payments recorded for invoice i.
PaymentsRecorded(i) ==
  SumSeq([k \in 1..Len(invoicePayments) |->
            IF invoicePayments[k].invoiceId = i
            THEN invoicePayments[k].amount ELSE 0])

\* C30: once two submissions of a payment for the same invoice have
\* overlapped, the payments recorded for an invoice never sum to more than
\* its totalAmount, and when no submission is in flight amountPaid is that
\* sum and balanceDue is not negative.
C30_OverlappingPaymentsKept ==
  overlapped =>
    \A i \in InvoiceIds :
      /\ PaymentsRecorded(i) <= invoices[i].totalAmount
      /\ (\A c \in Clients : clients[c].stage # "added") =>
           /\ invoices[i].amountPaid = PaymentsRecorded(i)
           /\ invoices[i].balanceDue >= 0
====
